---- MODULE Spec2Model ----
(***************************************************************************)
(* A model of drmake (src/cmd/drmake/main.go): the manifest parser, the    *)
(* target registry, the recipe resolver, the execution order planner, the  *)
(* listing and the run loop that drives the container runtime.             *)
(*                                                                         *)
(* Go strings are modelled as sequences of one-character strings, so that  *)
(* prefixes, slices, trimming, field splitting, lengths and lexicographic  *)
(* order are computed as the code computes them.                           *)
(***************************************************************************)
EXTENDS Integers, Sequences, FiniteSets, TLC

VARIABLES
    list,            \* the registry (targetlist): name -> target
    defaultTarget,   \* the name returned by parseMakefile
    runTargetNames,  \* the requested target names
    opts,            \* the command line options the model needs
    files,           \* directory -> content of its Dockerfile, or NoFile
    cwd,             \* the process working directory
    pc,              \* the position of the program
    runTargets,      \* the outcome of buildExecOrder
    cur,             \* index of the target the run loop is processing
    dfile,           \* the outcome of the last Dockerfile/parse call
    ops,             \* the external operations performed so far, in order
    namelist,        \* the names print renders, in order
    data,            \* the lines of the manifest file
    stack            \* the frames of the calls of buildExecOrder in progress

vars == <<list, defaultTarget, runTargetNames, opts, files, cwd, pc,
          runTargets, cur, dfile, ops, namelist, data, stack>>

-----------------------------------------------------------------------------
(* Strings *)

NL == "\n"
CR == "\r"
SP == " "
TAB == "\t"

\* strings.HasPrefix
HasPrefix(s, p) ==
    /\ Len(s) >= Len(p)
    /\ SubSeq(s, 1, Len(p)) = p

\* strings.HasSuffix
HasSuffix(s, p) ==
    /\ Len(s) >= Len(p)
    /\ SubSeq(s, Len(s) - Len(p) + 1, Len(s)) = p

\* s[n:]
From(s, n) == SubSeq(s, n + 1, Len(s))

RECURSIVE TrimLeft(_, _)
TrimLeft(s, cutset) ==
    IF s # <<>> /\ Head(s) \in cutset THEN TrimLeft(Tail(s), cutset) ELSE s

RECURSIVE TrimRight(_, _)
TrimRight(s, cutset) ==
    IF s # <<>> /\ s[Len(s)] \in cutset
    THEN TrimRight(SubSeq(s, 1, Len(s) - 1), cutset)
    ELSE s

\* strings.Trim(s, cutset)
Trim(s, cutset) == TrimRight(TrimLeft(s, cutset), cutset)

\* the cutset " \r\n" of the calls of strings.Trim on lines and recipes
BlankCut == {SP, CR, NL}

\* strings.Join(elems, sep)
RECURSIVE Join(_, _)
Join(elems, sep) ==
    IF elems = <<>> THEN <<>>
    ELSE IF Len(elems) = 1 THEN elems[1]
    ELSE elems[1] \o sep \o Join(Tail(elems), sep)

-----------------------------------------------------------------------------
(* Names of the model *)

tA == <<"a">>
tB == <<"b">>
tC == <<"c">>
tD == <<"d">>

\* a name no registry of the model defines
tM == <<"m">>

\* the constant defaultTarget of the program
defaultTargetConst == <<"d", "e", "f", "a", "u", "l", "t">>

\* type target
Target(name, image, defn, desc, deps, artifacts) ==
    [name |-> name, image |-> image, defn |-> defn, desc |-> desc,
     deps |-> deps, artifacts |-> artifacts]

\* the empty targetlist
EmptyList == [n \in {} |-> <<>>]

\* the empty artifacts map
NoArtifacts == [s \in {} |-> <<>>]

-----------------------------------------------------------------------------
(* Execution order planner *)

Ok(out) == [st |-> "ok", out |-> out]
Fatal(msg, arg) == [st |-> "fatal", msg |-> msg, arg |-> arg]
\* unbounded recursion: the goroutine stack grows until the runtime aborts
Overflow == [st |-> "overflow"]

\* targetlist.find
find(s, name) ==
    IF name \notin DOMAIN s
    THEN Fatal("Unknown target", name)
    ELSE Ok(s[name])

\* ordTargetsOf with the number of a name overwritten at each occurrence, so
\* that the last occurrence places it
RECURSIVE ordTargetsOf_KeepLast(_, _)
ordTargetsOf_KeepLast(unordTargets, seen) ==
    IF unordTargets = <<>> THEN seen
    ELSE LET name == Head(unordTargets) IN
         ordTargetsOf_KeepLast(Tail(unordTargets),
             Append(SelectSeq(seen, LAMBDA x : x # name), name))

\* the second loop of buildExecOrder: number the names by first occurrence
\* (ordTargets), and lay them out by that number
RECURSIVE ordTargetsOf(_, _)
ordTargetsOf(unordTargets, seen) ==
    IF unordTargets = <<>> THEN seen
    ELSE LET name == Head(unordTargets) IN
         IF \E i \in 1..Len(seen) : seen[i] = name
         THEN ordTargetsOf(Tail(unordTargets), seen)
         ELSE ordTargetsOf(Tail(unordTargets), Append(seen, name))

\* buildExecOrder(list, targets), returning the names of the targets in out.
\* active is the set of names whose deps the enclosing calls are flattening:
\* a call that reaches such a name again repeats the same descent for ever,
\* which is the outcome Overflow.
RECURSIVE buildExecOrderFrom(_, _, _, _)
buildExecOrder(s, targets, active) ==
    LET r == buildExecOrderFrom(s, targets, active, <<>>) IN
    IF r.st # "ok" THEN r ELSE Ok(ordTargetsOf(r.out, <<>>))

\* buildExecOrderFrom with the target appended before its dependencies
RECURSIVE buildExecOrderFrom_TargetFirst(_, _, _, _)
buildExecOrderFrom_TargetFirst(s, targets, active, unordTargets) ==
    IF targets = <<>> THEN Ok(unordTargets)
    ELSE LET targName == Head(targets)
             target == find(s, targName)
         IN
         IF target.st # "ok" THEN target
         ELSE IF targName \in active THEN Overflow
         ELSE LET depTargets ==
                      buildExecOrder(s, target.out.deps, active \cup {targName})
              IN
              IF depTargets.st # "ok" THEN depTargets
              ELSE buildExecOrderFrom_TargetFirst(s, Tail(targets), active,
                       unordTargets \o <<targName>> \o depTargets.out)

\* the first loop of buildExecOrder, from the targets left to visit and the
\* unordTargets collected so far
buildExecOrderFrom(s, targets, active, unordTargets) ==
    IF targets = <<>> THEN Ok(unordTargets)
    ELSE LET targName == Head(targets)
             target == find(s, targName)
         IN
         IF target.st # "ok" THEN target
         ELSE IF targName \in active THEN Overflow
         ELSE LET depTargets ==
                      buildExecOrder(s, target.out.deps, active \cup {targName})
              IN
              IF depTargets.st # "ok" THEN depTargets
              ELSE buildExecOrderFrom(s, Tail(targets), active,
                       unordTargets \o depTargets.out \o <<targName>>)

-----------------------------------------------------------------------------
(* Recipe resolver *)

\* the content of a directory that holds no Dockerfile
NoFile == "nofile"

\* origdir and tempdir; a directory is named by its path below origdir
origdir == <<>>
tempdir == <<"/", "t", "m", "p">>

\* filepath.Join(origdir, path)
JoinOrigdir(path) == path

\* filepath.Join(".drmake", "targets", name)
JoinDrmakeTargets(name) ==
    <<".", "d", "r", "m", "a", "k", "e", "/",
      "t", "a", "r", "g", "e", "t", "s", "/">> \o name

\* os.Chdir(dir): the working directory after the call, whose error the code
\* drops
Chdir(fs, wd, dir) == IF dir \in DOMAIN fs THEN dir ELSE wd

\* the outcome of a resolver call: the text, and the working directory it
\* leaves
Resolved(out, wd) == [st |-> "ok", out |-> out, cwd |-> wd]

\* target.dockerfileFromPath
dockerfileFromPath(s, path, fs, wd) ==
    LET wd1 == Chdir(fs, wd, JoinOrigdir(path)) IN
    IF fs[wd1] = NoFile
    THEN Fatal("Failed to read image", s.image)
    ELSE Resolved(Trim(fs[wd1], BlankCut), wd1)

\* target.Dockerfile. active is the set of names whose Dockerfile calls
\* enclose this one: reaching one of them again repeats the descent for ever.
RECURSIVE Dockerfile(_, _, _, _, _)

\* Dockerfile with the self-reference resolved like any other preface, to
\* the empty preface, a newline and the body
Dockerfile_SelfRefKeepsBody(s, l, fs, wd, active) ==
    LET preface ==
            IF HasPrefix(s.image, <<"&">>)
            THEN dockerfileFromPath(s, JoinDrmakeTargets(From(s.image, 1)), fs, wd)
            ELSE IF HasPrefix(s.image, <<"#">>)
            THEN LET pretarget == find(l, From(s.image, 1)) IN
                 IF pretarget.st # "ok" THEN pretarget
                 ELSE IF pretarget.out.name \in active \cup {s.name} THEN Overflow
                 ELSE LET r == Dockerfile(pretarget.out, l, fs, wd,
                                          active \cup {s.name})
                      IN IF r.st # "ok" THEN r
                         ELSE Resolved(Trim(r.out, BlankCut), r.cwd)
            ELSE IF HasPrefix(s.image, <<".", "/">>)
            THEN dockerfileFromPath(s, From(s.image, 2), fs, wd)
            ELSE Resolved(<<"F", "R", "O", "M", " ">> \o s.image, wd)
    IN
    IF HasPrefix(s.image, <<"#">>) /\ From(s.image, 1) = s.name
    THEN Resolved(Join(<<<<>>, s.defn>>, <<NL>>), Chdir(fs, wd, tempdir))
    ELSE IF preface.st # "ok" THEN preface
    ELSE Resolved(Join(<<preface.out, s.defn>>, <<NL>>),
                  Chdir(fs, preface.cwd, tempdir))

\* Dockerfile with the recipe of the referenced target taken untrimmed
Dockerfile_NoTrim(s, l, fs, wd, active) ==
    LET preface ==
            IF HasPrefix(s.image, <<"&">>)
            THEN dockerfileFromPath(s, JoinDrmakeTargets(From(s.image, 1)), fs, wd)
            ELSE IF HasPrefix(s.image, <<"#">>)
            THEN LET pretarget == find(l, From(s.image, 1)) IN
                 IF pretarget.st # "ok" THEN pretarget
                 ELSE IF pretarget.out.name \in active \cup {s.name} THEN Overflow
                 ELSE LET r == Dockerfile(pretarget.out, l, fs, wd,
                                          active \cup {s.name})
                      IN IF r.st # "ok" THEN r
                         ELSE Resolved(r.out, r.cwd)
            ELSE IF HasPrefix(s.image, <<".", "/">>)
            THEN dockerfileFromPath(s, From(s.image, 2), fs, wd)
            ELSE Resolved(<<"F", "R", "O", "M", " ">> \o s.image, wd)
    IN
    IF HasPrefix(s.image, <<"#">>) /\ From(s.image, 1) = s.name
    THEN Resolved(<<>>, wd)
    ELSE IF preface.st # "ok" THEN preface
    ELSE Resolved(Join(<<preface.out, s.defn>>, <<NL>>),
                  Chdir(fs, preface.cwd, tempdir))

\* target.Dockerfile
Dockerfile(s, l, fs, wd, active) ==
    LET preface ==
            IF HasPrefix(s.image, <<"&">>)
            THEN dockerfileFromPath(s, JoinDrmakeTargets(From(s.image, 1)), fs, wd)
            ELSE IF HasPrefix(s.image, <<"#">>)
            THEN LET pretarget == find(l, From(s.image, 1)) IN
                 IF pretarget.st # "ok" THEN pretarget
                 ELSE IF pretarget.out.name \in active \cup {s.name} THEN Overflow
                 ELSE LET r == Dockerfile(pretarget.out, l, fs, wd,
                                          active \cup {s.name})
                      IN IF r.st # "ok" THEN r
                         ELSE Resolved(Trim(r.out, BlankCut), r.cwd)
            ELSE IF HasPrefix(s.image, <<".", "/">>)
            THEN dockerfileFromPath(s, From(s.image, 2), fs, wd)
            ELSE Resolved(<<"F", "R", "O", "M", " ">> \o s.image, wd)
    IN
    IF HasPrefix(s.image, <<"#">>) /\ From(s.image, 1) = s.name
    THEN Resolved(<<>>, wd)
    ELSE IF preface.st # "ok" THEN preface
    ELSE Resolved(Join(<<preface.out, s.defn>>, <<NL>>),
                  Chdir(fs, preface.cwd, tempdir))

-----------------------------------------------------------------------------
(* The run: main, run, prepVolume and target.Run *)

\* an external operation on behalf of a target (or of none, for the volume),
\* and whether it failed
Op(op, name, arg, err) == [op |-> op, target |-> name, arg |-> arg, err |-> err]

\* the orders in which a range over the map of artifacts can visit its keys
KeyOrders(S) ==
    {o \in [1..Cardinality(S) -> S] : \A i, j \in DOMAIN o : i # j => o[i] # o[j]}

\* the target the loop of run is at
curTarget == list[runTargets.out[cur]]

\* run with prepVolume called before buildExecOrder
run_VolumeFirst ==
    /\ pc = "run"
    /\ LET names == IF Len(runTargetNames) = 0
                    THEN <<defaultTargetConst>> ELSE runTargetNames
           order == buildExecOrder(list, names, {})
       IN /\ runTargets' = order
          /\ pc' = IF order.st = "ok" THEN "Run" ELSE order.st
    /\ ops' = Append(ops, Op("volume create", <<>>, "ws", FALSE))
    /\ cur' = 1
    /\ UNCHANGED <<list, defaultTarget, runTargetNames, opts, files, cwd, dfile,
                   namelist, data,
                   stack>>

\* run, up to the loop: the default of an empty request, and buildExecOrder
run ==
    /\ pc = "run"
    /\ LET names == IF Len(runTargetNames) = 0
                    THEN <<defaultTargetConst>> ELSE runTargetNames
           order == buildExecOrder(list, names, {})
       IN /\ runTargets' = order
          /\ pc' = IF order.st = "ok" THEN "prepVolume" ELSE order.st
    /\ cur' = 1
    /\ UNCHANGED <<list, defaultTarget, runTargetNames, opts, files, cwd, dfile,
                   ops, namelist, data,
                   stack>>

\* prepVolume: nothing in host mode; else the volumes are removed when the
\* run is fresh (opts.Fresh, which nothing else reads), the workspace volume
\* is created and, when that succeeds, the host directory is copied into it
prepVolume ==
    /\ pc = "prepVolume"
    /\ \/ /\ opts.Host
          /\ ops' = ops
       \/ /\ ~opts.Host
          /\ \E Fresh \in BOOLEAN, created \in BOOLEAN :
                ops' = ops
                       \o (IF Fresh
                           THEN <<Op("volume rm", <<>>, "ws", FALSE),
                                  Op("volume rm", <<>>, "cache", FALSE)>>
                           ELSE <<>>)
                       \o <<Op("volume create", <<>>, "ws", ~created)>>
                       \o (IF created
                           THEN <<Op("copyVol", <<>>, "/srv/.", FALSE)>>
                           ELSE <<>>)
    /\ pc' = IF cur > Len(runTargets.out) THEN "done" ELSE "Run"
    /\ UNCHANGED <<list, defaultTarget, runTargetNames, opts, files, cwd,
                   runTargets, cur, dfile, namelist, data,
                   stack>>

\* where target.Run goes once the container steps are over: the copy of the
\* artifacts, or the next target of the loop
AfterContainer(s) ==
    IF ~opts.Host /\ DOMAIN s.artifacts # {} THEN "copy" ELSE "next"

\* RunDockerfile with the container steps run whatever the recipe is
RunDockerfile_AlwaysBuild ==
    /\ pc = "Run"
    /\ LET s == curTarget
           r == Dockerfile(s, list, files, cwd, {})
       IN /\ dfile' = r
          /\ IF r.st # "ok"
             THEN /\ pc' = r.st
                  /\ cwd' = cwd
             ELSE /\ cwd' = r.cwd
                  /\ pc' = "build"
    /\ UNCHANGED <<list, defaultTarget, runTargetNames, opts, files,
                   runTargets, cur, ops, namelist, data,
                   stack>>

\* target.Run, first statement: the recipe is resolved, and the container
\* steps are skipped when it is empty and the image is a # reference
RunDockerfile ==
    /\ pc = "Run"
    /\ LET s == curTarget
           r == Dockerfile(s, list, files, cwd, {})
       IN /\ dfile' = r
          /\ IF r.st # "ok"
             THEN /\ pc' = r.st
                  /\ cwd' = cwd
             ELSE /\ cwd' = r.cwd
                  /\ pc' = IF r.out # <<>> \/ ~HasPrefix(s.image, <<"#">>)
                           THEN "build" ELSE AfterContainer(s)
    /\ UNCHANGED <<list, defaultTarget, runTargetNames, opts, files,
                   runTargets, cur, ops, namelist, data,
                   stack>>

\* RunBuild with the error of the build dropped
RunBuild_ErrorDropped ==
    /\ pc = "build"
    /\ \E err \in BOOLEAN :
          /\ ops' = Append(ops, Op("build", curTarget.name, dfile.out, err))
          /\ pc' = "dockerrun"
    /\ UNCHANGED <<list, defaultTarget, runTargetNames, opts, files, cwd,
                   runTargets, cur, dfile, namelist, data,
                   stack>>

\* target.Run: docker build of the resolved recipe; a failure exits
RunBuild ==
    /\ pc = "build"
    /\ \E err \in BOOLEAN :
          /\ ops' = Append(ops, Op("build", curTarget.name, dfile.out, err))
          /\ pc' = IF err THEN "exit1" ELSE "dockerrun"
    /\ UNCHANGED <<list, defaultTarget, runTargetNames, opts, files, cwd,
                   runTargets, cur, dfile, namelist, data,
                   stack>>

\* target.Run: docker run of the image; a failure exits
RunContainer ==
    /\ pc = "dockerrun"
    /\ \E err \in BOOLEAN :
          /\ ops' = Append(ops, Op("run", curTarget.name, <<>>, err))
          /\ pc' = IF err THEN "exit1" ELSE AfterContainer(curTarget)
    /\ UNCHANGED <<list, defaultTarget, runTargetNames, opts, files, cwd,
                   runTargets, cur, dfile, namelist, data,
                   stack>>

\* target.Run: every artifact is copied, in the order the range over the map
\* happens to take
RunArtifacts ==
    /\ pc = "copy"
    /\ \E o \in KeyOrders(DOMAIN curTarget.artifacts) :
          ops' = ops \o [i \in DOMAIN o |->
                            Op("copy", curTarget.name,
                               <<o[i], curTarget.artifacts[o[i]]>>, FALSE)]
    /\ pc' = "next"
    /\ UNCHANGED <<list, defaultTarget, runTargetNames, opts, files, cwd,
                   runTargets, cur, dfile, namelist, data,
                   stack>>

\* the loop of run moves to the next target
RunNext ==
    /\ pc = "next"
    /\ cur' = cur + 1
    /\ pc' = IF cur + 1 > Len(runTargets.out) THEN "done" ELSE "Run"
    /\ UNCHANGED <<list, defaultTarget, runTargetNames, opts, files, cwd,
                   runTargets, dfile, ops, namelist, data,
                   stack>>

-----------------------------------------------------------------------------
(* The registries and requests of the run *)

\* bounds of the run
MaxRunEdges == 2
MaxReq == 1

RunNames == {tA, tB, tC}

\* every sequence over S of length at most n
RECURSIVE SeqsUpTo(_, _)
SeqsUpTo(S, n) ==
    IF n = 0 THEN {<<>>}
    ELSE LET R == SeqsUpTo(S, n - 1) IN
         R \cup {Append(r, x) : r \in R, x \in S}

\* every assignment of dependency lists to the targets T, over the names N,
\* that a manifest with at most k dependency names in all declares
RECURSIVE DepLists(_, _, _)
DepLists(T, N, k) ==
    IF k = 0 THEN {[t \in T |-> <<>>]}
    ELSE LET G == DepLists(T, N, k - 1) IN
         G \cup {[g EXCEPT ![t] = Append(g[t], n)] : g \in G, t \in T, n \in N}

\* the images of a target of the run: a base image, its own name, another
\* target, a name the registry lacks, a directory with a Dockerfile and one
\* without
LiteralImage == <<"x">>
RunImages(n) ==
    {<<"#">> \o n, <<"#">> \o tM, <<".", "/", "p">>, <<".", "/", "q">>}
    \cup {<<"#">> \o o : o \in RunNames \ {n}}

\* at most one target of a registry of the run has an image other than a base
\* image
RunImageMaps ==
    {[t \in RunNames |-> LiteralImage]}
    \cup {[[t \in RunNames |-> LiteralImage] EXCEPT ![n] = i] :
             n \in RunNames, i \in UNION {RunImages(t) : t \in RunNames}}

\* the body and the artifacts of the targets of the run
RunDefn(n) == IF n = tB THEN <<>> ELSE <<"R", "U", "N", " ">> \o n \o <<NL>>
RunArtifactsOf(n) ==
    IF n = tA THEN NoArtifacts
    ELSE IF n = tB THEN (<<"s">> :> <<"d">>)
    ELSE (<<"s">> :> <<"d">>) @@ (<<"o">> :> <<"o">>)

\* the directories of the run: origdir and tempdir hold no Dockerfile, p holds
\* one, q holds none
RunFiles ==
    (origdir :> NoFile) @@ (tempdir :> NoFile)
    @@ (<<"p">> :> <<"F", "R", "O", "M", " ", "y", NL>>) @@ (<<"q">> :> NoFile)

Init ==
    /\ \E g \in DepLists(RunNames, RunNames \cup {tM}, MaxRunEdges),
          im \in RunImageMaps :
          list = [n \in RunNames |->
                     Target(n, im[n], RunDefn(n), <<>>, g[n], RunArtifactsOf(n))]
    /\ defaultTarget = tA
    /\ runTargetNames = <<>>
    /\ opts \in [Host : BOOLEAN]
    /\ files = RunFiles
    /\ cwd = origdir
    /\ pc = "main"
    /\ runTargets = Ok(<<>>)
    /\ cur = 1
    /\ dfile = Ok(<<>>)
    /\ ops = <<>>
    /\ namelist = <<>>
    /\ data = <<>>
    /\ stack = <<>>

\* main, after the parse: the names of the command line are the request, and
\* an empty request becomes the default target of the manifest
main ==
    /\ pc = "main"
    /\ \E names \in SeqsUpTo(RunNames \cup {tM}, MaxReq) :
          runTargetNames' = IF Len(names) = 0 THEN <<defaultTarget>> ELSE names
    /\ pc' = "run"
    /\ UNCHANGED <<list, defaultTarget, opts, files, cwd, runTargets, cur,
                   dfile, ops, namelist, data,
                   stack>>

Next ==
    \/ main
    \/ run
    \/ prepVolume
    \/ RunDockerfile
    \/ RunBuild
    \/ RunContainer
    \/ RunArtifacts
    \/ RunNext

Spec == Init /\ [][Next]_vars

-----------------------------------------------------------------------------
(* The planner on its own: buildExecOrder over every small dependency graph *)

\* bounds of the planner's inputs
MaxEdges == 4
MaxTargets == 2

OrderNames == {tA, tB, tC, tD}

\* the names of the requests: the registries of InitOrder are closed under
\* renaming of the targets, so every request of at most three distinct names
\* is, up to renaming, a request over RequestNames
RequestNames == {tA, tB, tC}

InitOrder ==
    /\ \E g \in DepLists(OrderNames, OrderNames, MaxEdges) :
          list = [n \in OrderNames |->
                     Target(n, LiteralImage, <<>>, <<>>, g[n], NoArtifacts)]
    /\ defaultTarget = tA
    /\ runTargetNames = <<>>
    /\ opts = [Host |-> FALSE]
    /\ files = RunFiles
    /\ cwd = origdir
    /\ pc = "buildExecOrder"
    /\ runTargets = Ok(<<>>)
    /\ cur = 1
    /\ dfile = Ok(<<>>)
    /\ ops = <<>>
    /\ namelist = <<>>
    /\ data = <<>>
    /\ stack = <<>>

\* a call buildExecOrder(list, targets)
CallBuildExecOrder ==
    /\ pc = "buildExecOrder"
    /\ \E targets \in SeqsUpTo(RequestNames, MaxTargets) :
          /\ runTargetNames' = targets
          /\ runTargets' = buildExecOrder(list, targets, {})
    /\ pc' = IF runTargets'.st = "ok" THEN "returned" ELSE runTargets'.st
    /\ UNCHANGED <<list, defaultTarget, opts, files, cwd, cur, dfile, ops,
                   namelist, data,
                   stack>>

NextOrder == CallBuildExecOrder

SpecOrder == InitOrder /\ [][NextOrder]_vars

-----------------------------------------------------------------------------
(* The planner step by step: each call of buildExecOrder in progress is a   *)
(* frame of the goroutine stack, so that a recursion that never ends is a   *)
(* stack that never stops growing                                           *)

\* bounds of the stepwise planner: the dependency names of a registry, the
\* names of a request, and the frames the goroutine stack holds before the
\* runtime aborts the process
MaxStackEdges == 3
MaxStackReq == 1
MaxDepth == 5

StackNames == {tA, tB, tC}

\* the frame of a call buildExecOrder(list, targets): the argument, the place
\* of the first loop in it, and unordTargets
Frame(targets) == [targets |-> targets, i |-> 1, unordTargets |-> <<>>]

\* the frame of the call in progress
Top == stack[Len(stack)]

\* run calls buildExecOrder(list, runTargetNames)
InitStack ==
    /\ \E g \in DepLists(StackNames, StackNames \cup {tM}, MaxStackEdges) :
          list = [n \in StackNames |->
                     Target(n, LiteralImage, <<>>, <<>>, g[n], NoArtifacts)]
    /\ defaultTarget = tA
    /\ runTargetNames \in SeqsUpTo(StackNames, MaxStackReq)
    /\ opts = [Host |-> FALSE]
    /\ files = RunFiles
    /\ cwd = origdir
    /\ pc = "buildExecOrder"
    /\ runTargets = Ok(<<>>)
    /\ cur = 1
    /\ dfile = Ok(<<>>)
    /\ ops = <<>>
    /\ namelist = <<>>
    /\ data = <<>>
    /\ stack = <<Frame(runTargetNames)>>

\* the name is on the stack: a call below is flattening its deps
OnStack(name) ==
    \E k \in 1..(Len(stack) - 1) : stack[k].targets[stack[k].i] = name

\* StackCall with a check the code does not make: a name that is already on
\* the stack ends the run with a DependencyCycle error
StackCall_CycleDetected ==
    /\ pc = "buildExecOrder"
    /\ Top.i <= Len(Top.targets)
    /\ LET targName == Top.targets[Top.i]
           target == find(list, targName)
       IN IF target.st # "ok"
          THEN /\ runTargets' = target
               /\ pc' = "fatal"
               /\ stack' = stack
          ELSE IF OnStack(targName)
          THEN /\ runTargets' = Fatal("DependencyCycle", targName)
               /\ pc' = "fatal"
               /\ stack' = stack
          ELSE IF Len(stack) >= MaxDepth
          THEN /\ runTargets' = Overflow
               /\ pc' = "overflow"
               /\ stack' = stack
          ELSE /\ stack' = Append(stack, Frame(target.out.deps))
               /\ UNCHANGED <<pc, runTargets>>
    /\ UNCHANGED <<list, defaultTarget, runTargetNames, opts, files, cwd, cur,
                   dfile, ops, namelist, data>>

\* the first loop of buildExecOrder at a name of targets: find looks the name
\* up (and ends the run when it is unknown), then buildExecOrder is called on
\* the deps of the target; the call has no room when the stack is full
StackCall ==
    /\ pc = "buildExecOrder"
    /\ Top.i <= Len(Top.targets)
    /\ LET targName == Top.targets[Top.i]
           target == find(list, targName)
       IN IF target.st # "ok"
          THEN /\ runTargets' = target
               /\ pc' = "fatal"
               /\ stack' = stack
          ELSE IF Len(stack) >= MaxDepth
          THEN /\ runTargets' = Overflow
               /\ pc' = "overflow"
               /\ stack' = stack
          ELSE /\ stack' = Append(stack, Frame(target.out.deps))
               /\ UNCHANGED <<pc, runTargets>>
    /\ UNCHANGED <<list, defaultTarget, runTargetNames, opts, files, cwd, cur,
                   dfile, ops, namelist, data>>

\* the first loop of buildExecOrder is over: the second and third loops lay
\* out the names by first occurrence and the call returns, to run or to the
\* first loop of the caller, which appends the names and then targName
StackReturn ==
    /\ pc = "buildExecOrder"
    /\ Top.i > Len(Top.targets)
    /\ LET out == ordTargetsOf(Top.unordTargets, <<>>) IN
       IF Len(stack) = 1
       THEN /\ runTargets' = Ok(out)
            /\ pc' = "returned"
            /\ stack' = <<>>
       ELSE LET caller == stack[Len(stack) - 1]
                targName == caller.targets[caller.i]
            IN /\ stack' = SubSeq(stack, 1, Len(stack) - 2)
                           \o <<[caller EXCEPT
                                   !.i = @ + 1,
                                   !.unordTargets = @ \o out \o <<targName>>]>>
               /\ UNCHANGED <<pc, runTargets>>
    /\ UNCHANGED <<list, defaultTarget, runTargetNames, opts, files, cwd, cur,
                   dfile, ops, namelist, data>>

NextStack ==
    \/ StackCall
    \/ StackReturn

\* the process is the only thread of the planner and runs as long as it has a
\* step to take
SpecStack == InitStack /\ [][NextStack]_vars /\ WF_vars(NextStack)

-----------------------------------------------------------------------------
(* The resolver on its own: target.Dockerfile over small registries *)

\* bound of the bodies: the number of lines of a body
MaxLines == 1

\* the lines a body is made of: the parser trims a line, and leaves a blank
\* at the end of one that a continuation has joined with an empty line
BodyLineSet == {<<"l">>, <<"k", SP>>}

\* the bodies the parser builds of at most n lines, each followed by a newline
RECURSIVE BodiesUpTo(_)
BodiesUpTo(n) ==
    IF n = 0 THEN {<<>>}
    ELSE LET R == BodiesUpTo(n - 1) IN
         R \cup {r \o ln \o <<NL>> : r \in R, ln \in BodyLineSet}

\* the images of the targets resolved: a base image, a target of the registry
\* or a name it lacks, a directory with a Dockerfile, a directory that does
\* not exist, and a workspace target
ResolveImages ==
    {LiteralImage, <<".", "/", "p">>, <<".", "/", "r">>, <<"&", "n">>}
    \cup {<<"#">> \o n : n \in RunNames \cup {tM}}

\* the directories of the resolver: origdir with or without a Dockerfile of
\* its own, tempdir empty, p and .drmake/targets/n with a Dockerfile
ResolveFiles(orig) ==
    (origdir :> orig) @@ (tempdir :> NoFile)
    @@ (<<"p">> :> <<SP, NL, "F", "R", "O", "M", " ", "y", NL, NL>>)
    @@ (JoinDrmakeTargets(<<"n">>) :> <<"F", "R", "O", "M", " ", "w", NL>>)

InitResolve ==
    /\ \E im \in [RunNames -> ResolveImages],
          bd \in [RunNames -> BodiesUpTo(MaxLines)] :
          list = [n \in RunNames |->
                     Target(n, im[n], bd[n], <<>>, <<>>, NoArtifacts)]
    /\ defaultTarget = tA
    /\ runTargetNames = <<>>
    /\ opts = [Host |-> FALSE]
    /\ \E orig \in {NoFile, <<"F", "R", "O", "M", " ", "o", NL>>} :
          files = ResolveFiles(orig)
    /\ cwd \in {origdir, tempdir}
    /\ pc = "Dockerfile"
    /\ runTargets = Ok(<<>>)
    /\ cur = 1
    /\ dfile = Ok(<<>>)
    /\ ops = <<>>
    /\ namelist = <<>>
    /\ data = <<>>
    /\ stack = <<>>

\* a call list[n].Dockerfile(list) for a target n of the registry
CallDockerfile ==
    /\ pc = "Dockerfile"
    /\ \E n \in DOMAIN list :
          LET r == Dockerfile(list[n], list, files, cwd, {}) IN
          /\ runTargetNames' = <<n>>
          /\ dfile' = r
          /\ pc' = IF r.st = "ok" THEN "returned" ELSE r.st
          /\ cwd' = IF r.st = "ok" THEN r.cwd ELSE cwd
    /\ UNCHANGED <<list, defaultTarget, opts, files, runTargets, cur, ops,
                   namelist, data,
                   stack>>

NextResolve == CallDockerfile

SpecResolve == InitResolve /\ [][NextResolve]_vars

-----------------------------------------------------------------------------
(* The listing: print *)

\* the characters of the model in the order of their bytes
Alphabet ==
    <<TAB, NL, CR, SP, "#", "$", "&", ".", "/", "=",
      "A", "E", "F", "G", "M", "N", "O", "R", "S", "U", "V", "X",
      "a", "b", "c", "d", "e", "f", "g", "k", "l", "m", "n", "o", "p", "q",
      "r", "s", "t", "u", "v", "w", "x", "y", "{", "}">>

Ord(ch) == CHOOSE i \in DOMAIN Alphabet : Alphabet[i] = ch

\* x < y for two Go strings: the order of sort.Strings
RECURSIVE StrLess(_, _)
StrLess(x, y) ==
    IF y = <<>> THEN FALSE
    ELSE IF x = <<>> THEN TRUE
    ELSE IF Head(x) # Head(y) THEN Ord(Head(x)) < Ord(Head(y))
    ELSE StrLess(Tail(x), Tail(y))

\* sort.Strings
RECURSIVE SortStrings(_)
SortStrings(q) ==
    IF q = <<>> THEN <<>>
    ELSE LET i == CHOOSE i \in DOMAIN q :
                     \A j \in DOMAIN q : ~StrLess(q[j], q[i])
         IN <<q[i]>> \o SortStrings(SubSeq(q, 1, i - 1) \o SubSeq(q, i + 1, Len(q)))

\* the first loop of print over the names in the order the range over the map
\* takes: a name is kept when it is longer than the longest kept so far and
\* its target has a description
RECURSIVE printNames(_, _, _, _)
printNames(l, order, longest, kept) ==
    IF order = <<>> THEN kept
    ELSE LET name == Head(order) IN
         IF Len(name) > longest
         THEN IF l[name].desc = <<>>
              THEN printNames(l, Tail(order), longest, kept)
              ELSE printNames(l, Tail(order), Len(name), Append(kept, name))
         ELSE printNames(l, Tail(order), longest, kept)

PrintNames == {tA, tB, tC, <<"a", "b">>, <<"a", "b", "c">>}
PrintDescs == {<<>>, <<"d">>}

InitPrint ==
    /\ \E D \in SUBSET PrintNames, ds \in [PrintNames -> PrintDescs] :
          list = [n \in D |-> Target(n, LiteralImage, <<>>, ds[n], <<>>, NoArtifacts)]
    /\ defaultTarget = tA
    /\ runTargetNames = <<>>
    /\ opts = [Host |-> FALSE]
    /\ files = RunFiles
    /\ cwd = origdir
    /\ pc = "print"
    /\ runTargets = Ok(<<>>)
    /\ cur = 1
    /\ dfile = Ok(<<>>)
    /\ ops = <<>>
    /\ namelist = <<>>
    /\ data = <<>>
    /\ stack = <<>>

\* print(list): one line is written for each name of namelist, in its order
print ==
    /\ pc = "print"
    /\ \E order \in KeyOrders(DOMAIN list) :
          namelist' = SortStrings(printNames(list, order, 0, <<>>))
    /\ pc' = "printed"
    /\ UNCHANGED <<list, defaultTarget, runTargetNames, opts, files, cwd,
                   runTargets, cur, dfile, ops, data,
                   stack>>

NextPrint == print

SpecPrint == InitPrint /\ [][NextPrint]_vars

-----------------------------------------------------------------------------
(* The manifest parser: parseMakefile *)

DQ == "\""
BS == "\\"

Lowers == <<"a", "b", "c", "d", "e", "f", "g", "h", "i", "j", "k", "l", "m",
            "n", "o", "p", "q", "r", "s", "t", "u", "v", "w", "x", "y", "z">>
Uppers == <<"A", "B", "C", "D", "E", "F", "G", "H", "I", "J", "K", "L", "M",
            "N", "O", "P", "Q", "R", "S", "T", "U", "V", "W", "X", "Y", "Z">>
Digits == {"0", "1", "2", "3", "4", "5", "6", "7", "8", "9"}

\* strings.ToUpper and strings.ToLower
ToUpper(s) ==
    [i \in DOMAIN s |->
        IF \E k \in DOMAIN Lowers : Lowers[k] = s[i]
        THEN Uppers[CHOOSE k \in DOMAIN Lowers : Lowers[k] = s[i]]
        ELSE s[i]]
ToLower(s) ==
    [i \in DOMAIN s |->
        IF \E k \in DOMAIN Uppers : Uppers[k] = s[i]
        THEN Lowers[CHOOSE k \in DOMAIN Uppers : Uppers[k] = s[i]]
        ELSE s[i]]

\* the white space of strings.Fields and of \s
IsSpace(ch) == ch \in {SP, TAB, NL, CR}

\* strings.Fields: acc is the field being read
RECURSIVE FieldsFrom(_, _)
FieldsFrom(s, acc) ==
    IF s = <<>> THEN (IF acc = <<>> THEN <<>> ELSE <<acc>>)
    ELSE IF IsSpace(Head(s))
    THEN (IF acc = <<>> THEN <<>> ELSE <<acc>>) \o FieldsFrom(Tail(s), <<>>)
    ELSE FieldsFrom(Tail(s), Append(acc, Head(s)))
Fields(s) == FieldsFrom(s, <<>>)

\* strings.Contains(s, sep) for a separator of one character
Contains(s, ch) == \E i \in DOMAIN s : s[i] = ch

\* strings.SplitN(s, sep, 2) for a separator of one character
SplitN2(s, ch) ==
    IF Contains(s, ch)
    THEN LET i == CHOOSE i \in DOMAIN s :
                     s[i] = ch /\ \A j \in 1..(i - 1) : s[j] # ch
         IN <<SubSeq(s, 1, i - 1), SubSeq(s, i + 1, Len(s))>>
    ELSE <<s>>

\* the characters \b tells from the others
IsWordChar(ch) ==
    \/ \E k \in DOMAIN Lowers : Lowers[k] = ch \/ Uppers[k] = ch
    \/ ch \in Digits \cup {"_"}

\* the last element of regexp.MustCompile(`\b`).Split(image, -1): the longest
\* run of characters of one kind, word or not, that ends the image
RECURSIVE LastWordPiece(_)
LastWordPiece(image) ==
    IF Len(image) <= 1 THEN image
    ELSE LET front == SubSeq(image, 1, Len(image) - 1)
             last == image[Len(image)]
         IN IF IsWordChar(front[Len(front)]) = IsWordChar(last)
            THEN Append(LastWordPiece(front), last)
            ELSE <<last>>

\* reFromLine.FindStringSubmatch(line), on the fields cf of a line whose first
\* field is FROM: the image, the name after AS and the text after USING; no
\* match when no image follows
NoMatch == <<>>
reFromLineMatch(cf) ==
    IF Len(cf) < 2 THEN NoMatch
    ELSE LET hasAs == Len(cf) >= 4 /\ ToUpper(cf[3]) = <<"A", "S">>
             rest == IF hasAs THEN 5 ELSE 3
             hasUsing == /\ Len(cf) >= rest + 1
                         /\ ToUpper(cf[rest]) = <<"U", "S", "I", "N", "G">>
         IN <<cf[2],
              IF hasAs THEN cf[4] ELSE <<>>,
              IF hasUsing THEN SubSeq(cf, rest + 1, Len(cf)) ELSE <<>>>>

\* the state of the loop of parseMakefile
NoTarget == "nil"
ParseState(l, atarget, default, prev, st) ==
    [list |-> l, atarget |-> atarget, defaultTarget |-> default,
     prev |-> prev, st |-> st]

KwFROM == <<"F", "R", "O", "M">>
KwARTIFACT == <<"A", "R", "T", "I", "F", "A", "C", "T">>
KwENVARG == <<"E", "N", "V", "A", "R", "G">>
KwLABEL == <<"L", "A", "B", "E", "L">>
KwDescription == <<"d", "e", "s", "c", "r", "i", "p", "t", "i", "o", "n">>

\* the line the loop works on: the continuation kept so far and the trimmed
\* raw line
JoinedLine(prev, raw) == prev \o Trim(raw, BlankCut)

\* the line awaits its continuation
Continued(line) == HasSuffix(line, <<SP, BS>>)

\* parseLine with a FROM line that the pattern does not match sealing the
\* current target: the lines that follow it go to no target
parseLine_NoMatchSeals(ps, raw) ==
    LET line == JoinedLine(ps.prev, raw)
        cf == Fields(line)
        at == ps.atarget
        cur_ == ps.list[at]
        done == [ps EXCEPT !.prev = <<>>]
    IN
    IF Continued(line)
    THEN [ps EXCEPT !.prev = SubSeq(line, 1, Len(line) - 1)]
    ELSE IF line = <<>> \/ line[1] = "#" THEN done
    ELSE IF Len(cf) > 0 /\ ToUpper(cf[1]) = KwFROM
    THEN LET match == reFromLineMatch(cf) IN
         IF match = NoMatch THEN [done EXCEPT !.atarget = NoTarget]
         ELSE LET image == match[1]
                  name == IF match[2] = <<>> THEN LastWordPiece(image)
                          ELSE match[2]
                  deps == match[3]
              IN [done EXCEPT
                    !.list = [n \in DOMAIN ps.list \cup {name} |->
                                 IF n = name
                                 THEN Target(name, image, <<>>, <<>>, deps,
                                             NoArtifacts)
                                 ELSE ps.list[n]],
                    !.atarget = name,
                    !.defaultTarget = IF ps.defaultTarget = <<>> THEN name
                                      ELSE ps.defaultTarget]
    ELSE IF at = NoTarget THEN done
    ELSE IF Len(cf) > 1 /\ ToUpper(cf[1]) = KwARTIFACT
    THEN LET artargs == Join(Tail(cf), <<SP>>)
             parts == SplitN2(artargs, IF Contains(artargs, "=") THEN "=" ELSE SP)
             src == parts[1]
             dst == IF Len(parts) = 2 THEN parts[2] ELSE parts[1]
         IN [done EXCEPT
               !.list[at].artifacts =
                   [k \in DOMAIN cur_.artifacts \cup {src} |->
                       IF k = src THEN dst ELSE cur_.artifacts[k]]]
    ELSE IF Len(cf) > 1 /\ ToUpper(cf[1]) = KwENVARG
    THEN IF Len(cf) # 2
         THEN [done EXCEPT !.list[at].defn = cur_.defn \o From(line, 3) \o <<NL>>,
                           !.st = "fatal"]
         ELSE LET parts == SplitN2(cf[2], "=") IN
              [done EXCEPT
                 !.list[at].defn =
                     cur_.defn \o From(line, 3) \o <<NL>>
                     \o <<"E", "N", "V", SP>> \o parts[1] \o <<"=", "$", "{">>
                     \o parts[1] \o <<"}", NL>>]
    ELSE LET kv == IF Len(cf) > 1 /\ ToUpper(cf[1]) = KwLABEL
                   THEN SplitN2(Join(Tail(cf), <<SP>>), "=")
                   ELSE <<>>
             isDesc == /\ Len(kv) = 2
                       /\ ToLower(Trim(kv[1], {DQ})) = KwDescription
         IN [done EXCEPT
               !.list[at].desc = IF isDesc THEN Trim(kv[2], {DQ}) ELSE cur_.desc,
               !.list[at].defn = cur_.defn \o line \o <<NL>>]

\* the body of the loop of parseMakefile for one raw line
parseLine(ps, raw) ==
    LET line == JoinedLine(ps.prev, raw)
        cf == Fields(line)
        at == ps.atarget
        cur_ == ps.list[at]
        done == [ps EXCEPT !.prev = <<>>]
    IN
    IF Continued(line)
    THEN [ps EXCEPT !.prev = SubSeq(line, 1, Len(line) - 1)]
    ELSE IF line = <<>> \/ line[1] = "#" THEN done
    ELSE IF Len(cf) > 0 /\ ToUpper(cf[1]) = KwFROM
    THEN LET match == reFromLineMatch(cf) IN
         IF match = NoMatch THEN done
         ELSE LET image == match[1]
                  name == IF match[2] = <<>> THEN LastWordPiece(image)
                          ELSE match[2]
                  deps == match[3]
              IN [done EXCEPT
                    !.list = [n \in DOMAIN ps.list \cup {name} |->
                                 IF n = name
                                 THEN Target(name, image, <<>>, <<>>, deps,
                                             NoArtifacts)
                                 ELSE ps.list[n]],
                    !.atarget = name,
                    !.defaultTarget = IF ps.defaultTarget = <<>> THEN name
                                      ELSE ps.defaultTarget]
    ELSE IF at = NoTarget THEN done
    ELSE IF Len(cf) > 1 /\ ToUpper(cf[1]) = KwARTIFACT
    THEN LET artargs == Join(Tail(cf), <<SP>>)
             parts == SplitN2(artargs, IF Contains(artargs, "=") THEN "=" ELSE SP)
             src == parts[1]
             dst == IF Len(parts) = 2 THEN parts[2] ELSE parts[1]
         IN [done EXCEPT
               !.list[at].artifacts =
                   [k \in DOMAIN cur_.artifacts \cup {src} |->
                       IF k = src THEN dst ELSE cur_.artifacts[k]]]
    ELSE IF Len(cf) > 1 /\ ToUpper(cf[1]) = KwENVARG
    THEN IF Len(cf) # 2
         THEN [done EXCEPT !.list[at].defn = cur_.defn \o From(line, 3) \o <<NL>>,
                           !.st = "fatal"]
         ELSE LET parts == SplitN2(cf[2], "=") IN
              [done EXCEPT
                 !.list[at].defn =
                     cur_.defn \o From(line, 3) \o <<NL>>
                     \o <<"E", "N", "V", SP>> \o parts[1] \o <<"=", "$", "{">>
                     \o parts[1] \o <<"}", NL>>]
    ELSE LET kv == IF Len(cf) > 1 /\ ToUpper(cf[1]) = KwLABEL
                   THEN SplitN2(Join(Tail(cf), <<SP>>), "=")
                   ELSE <<>>
             isDesc == /\ Len(kv) = 2
                       /\ ToLower(Trim(kv[1], {DQ})) = KwDescription
         IN [done EXCEPT
               !.list[at].desc = IF isDesc THEN Trim(kv[2], {DQ}) ELSE cur_.desc,
               !.list[at].defn = cur_.defn \o line \o <<NL>>]

\* the loop of parseMakefile over the lines left, which log.Fatal leaves
RECURSIVE parseLines(_, _)
parseLines(ps, lines) ==
    IF lines = <<>> \/ ps.st = "fatal" THEN ps
    ELSE parseLines(parseLine(ps, Head(lines)), Tail(lines))

\* bound of the manifest: its number of lines
MaxData == 3

\* the lines a manifest of the model is made of
ManifestLines ==
    {<<"F", "R", "O", "M", SP, "x", SP, "A", "S", SP, "a">>,
     <<"f", "r", "o", "m", SP, "#", "b", SP, "U", "S", "I", "N", "G", SP, "a", SP, "m">>,
     <<"F", "R", "O", "M", SP, ".", "/", "p">>,
     <<"E", "N", "V", "A", "R", "G">>,
     <<"E", "N", "V", "A", "R", "G", SP, "K", "=", "V">>,
     <<"E", "N", "V", "A", "R", "G", SP, "K", "=", "V", SP, "W">>,
     <<"R", "U", "N", SP, "l">>,
     <<>>,
     <<"#", SP, "c">>,
     <<"R", "U", "N", SP, "k", SP, BS>>,
     <<"A", "R", "T", "I", "F", "A", "C", "T", SP, "s", SP, "d">>,
     <<"L", "A", "B", "E", "L", SP, "D", "e", "s", "c", "r", "i", "p", "t", "i", "o", "n", "=", DQ, "d", DQ>>,
     <<"F", "R", "O", "M">>,
     <<TAB>>}

InitParse ==
    /\ list = EmptyList
    /\ defaultTarget = <<>>
    /\ runTargetNames = <<>>
    /\ opts = [Host |-> FALSE]
    /\ files = RunFiles
    /\ cwd = origdir
    /\ pc = "parseMakefile"
    /\ runTargets = Ok(<<>>)
    /\ cur = 1
    /\ dfile = Ok(<<>>)
    /\ ops = <<>>
    /\ namelist = <<>>
    /\ data \in SeqsUpTo(ManifestLines, MaxData)
    /\ stack = <<>>

\* parseMakefile(list) on the lines of the manifest file
parseMakefile ==
    /\ pc = "parseMakefile"
    /\ LET ps == parseLines(ParseState(list, NoTarget, <<>>, <<>>, "ok"), data)
       IN /\ list' = ps.list
          /\ defaultTarget' = ps.defaultTarget
          /\ pc' = IF ps.st = "fatal" THEN "fatal" ELSE "parsed"
    /\ UNCHANGED <<runTargetNames, opts, files, cwd, runTargets, cur, dfile,
                   ops, namelist, data,
                   stack>>

NextParse == parseMakefile

SpecParse == InitParse /\ [][NextParse]_vars

-----------------------------------------------------------------------------
(* Properties of the run *)

Range(f) == {f[x] : x \in DOMAIN f}

\* a target whose image is # followed by its own name
SelfRef(s) == HasPrefix(s.image, <<"#">>) /\ From(s.image, 1) = s.name

\* the names reachable from the names of frontier along the dependency lists
RECURSIVE Reach(_, _, _)
Reach(l, frontier, seen) ==
    IF frontier \subseteq seen THEN seen
    ELSE LET new == frontier \ seen IN
         Reach(l, UNION {Range(l[n].deps) : n \in new \cap DOMAIN l},
               seen \cup new)

\* the names a target transitively depends on
TransDeps(l, n) == Reach(l, Range(l[n].deps), {})

\* the place of a name in the planned order (0 when it is not planned)
Pos(n) ==
    IF runTargets.st = "ok" /\ \E i \in DOMAIN runTargets.out : runTargets.out[i] = n
    THEN CHOOSE i \in DOMAIN runTargets.out : runTargets.out[i] = n
    ELSE 0

\* the call of target.Run for the planned target n has returned
Completed(n) ==
    /\ Pos(n) > 0
    /\ \/ Pos(n) < cur
       \/ Pos(n) = cur /\ pc = "next"

\* ops[i] is the operation op of target n, and it succeeded
Did(i, op, n) == ops[i].op = op /\ ops[i].target = n /\ ~ops[i].err

\* target n was built and then run, both with success, before ops[i]
BuiltAndRunBefore(n, i) ==
    \E k \in 1..(i - 1) :
       Did(k, "run", n) /\ \E j \in 1..(k - 1) : Did(j, "build", n)

ContainerOps == {"build", "run"}
TargetOps == {"build", "run", "copy"}

\* C3: a build or run of a target comes only after every target it
\* transitively depends on was processed with success (built and run, or, for
\* a self-referencing one, passed over by the loop), the operations follow the
\* planned order, and a failed build or run is the last operation of the run.
C3_DepsProcessedFirst ==
    /\ \A i \in DOMAIN ops :
          ops[i].op \in ContainerOps =>
             \A u \in TransDeps(list, ops[i].target) :
                /\ Pos(u) > 0 /\ Pos(u) < Pos(ops[i].target)
                /\ Pos(u) < cur
                /\ ~SelfRef(list[u]) => BuiltAndRunBefore(u, i)
    /\ \A i \in DOMAIN ops :
          ops[i].op \in TargetOps =>
             \A j \in (i + 1)..Len(ops) :
                ops[j].op \in TargetOps
                   => Pos(ops[i].target) <= Pos(ops[j].target)
    /\ \A i \in DOMAIN ops :
          (ops[i].op \in ContainerOps /\ ops[i].err)
             => i = Len(ops) /\ pc = "exit1"

\* C3 witness: a target was built after a target it depends on was built and
\* run, and a later build failed
C3_Witness ==
    /\ pc = "exit1"
    /\ \E i \in DOMAIN ops :
          /\ ops[i].op = "build" /\ ops[i].err
          /\ \E u \in TransDeps(list, ops[i].target) : BuiltAndRunBefore(u, i)

\* a copy of every artifact of target n is in ops
ArtifactsCopied(n) ==
    \A src \in DOMAIN list[n].artifacts :
       \E i \in DOMAIN ops :
          /\ Did(i, "copy", n)
          /\ ops[i].arg = <<src, list[n].artifacts[src]>>

\* C6: a self-referencing target is never built nor run, and once target.Run
\* has returned for it every artifact it declares has been copied (not in
\* host mode); a copy of an artifact of any other target comes after a build
\* and then a run of that target, and target.Run returns for such a target
\* only after its build and run.
C6_SelfRefSkipsContainer ==
    /\ \A i \in DOMAIN ops :
          ops[i].op \in ContainerOps => ~SelfRef(list[ops[i].target])
    /\ \A n \in DOMAIN list :
          (SelfRef(list[n]) /\ Completed(n) /\ ~opts.Host) => ArtifactsCopied(n)
    /\ \A i \in DOMAIN ops :
          (ops[i].op = "copy" /\ ~SelfRef(list[ops[i].target]))
             => BuiltAndRunBefore(ops[i].target, i)
    /\ \A n \in DOMAIN list :
          (~SelfRef(list[n]) /\ Completed(n))
             => /\ BuiltAndRunBefore(n, Len(ops) + 1)
                /\ ~opts.Host => ArtifactsCopied(n)

\* C6 witness: target.Run has returned for a self-referencing target with a
\* body and artifacts, which were copied, and for another target, which was
\* built and run
C6_Witness ==
    /\ ~opts.Host
    /\ \E n \in DOMAIN list :
          /\ SelfRef(list[n]) /\ Completed(n)
          /\ list[n].defn # <<>>
          /\ DOMAIN list[n].artifacts # {}
          /\ ArtifactsCopied(n)
    /\ \E n \in DOMAIN list :
          /\ ~SelfRef(list[n]) /\ Completed(n)
          /\ DOMAIN list[n].artifacts # {}

\* the names the run was asked for
Requested ==
    IF Len(runTargetNames) = 0 THEN <<defaultTargetConst>> ELSE runTargetNames

\* a requested name, or a name of the transitive dependency lists of a
\* requested target, is absent from the registry
MissingName ==
    \E n \in Reach(list, Range(Requested), {}) : n \notin DOMAIN list

\* run has gone past buildExecOrder
Planned == pc \notin {"main", "run"}

\* C9 as stated: with a name missing, the run ends with the unknown-target
\* error and without any external operation.
C9_MissingNameIsUnknownTarget ==
    (Planned /\ MissingName)
       => /\ pc = "fatal"
          /\ runTargets.st = "fatal"
          /\ runTargets.msg = "Unknown target"
          /\ ops = <<>>

\* C10 as stated: no fatal error of the core comes after an operation on a
\* planned target.
C10_NoFatalAfterExecution ==
    pc \in {"fatal", "overflow"}
       => \A i \in DOMAIN ops : ops[i].op \notin TargetOps

\* C10 amended: a fatal error of the planner comes before any external
\* operation; a fatal error of the resolver comes in target.Run, before any
\* operation on the target being resolved, and every build is handed the
\* recipe resolved for its target in the same call of target.Run.
C10_ResolvedPerTarget ==
    /\ (pc \in {"fatal", "overflow"} /\ runTargets.st # "ok") => ops = <<>>
    /\ (pc \in {"fatal", "overflow"} /\ runTargets.st = "ok")
          => /\ dfile.st # "ok"
             /\ \A i \in DOMAIN ops : ops[i].target # curTarget.name
    /\ \A i \in DOMAIN ops :
          (ops[i].op = "build" /\ Pos(ops[i].target) = cur)
             => dfile.st = "ok" /\ ops[i].arg = dfile.out

\* C10 witness: the resolver failed for a planned target after another
\* planned target was built and run
C10_Witness ==
    /\ pc = "fatal"
    /\ runTargets.st = "ok"
    /\ dfile.st = "fatal"
    /\ \E i \in DOMAIN ops : BuiltAndRunBefore(ops[i].target, i + 1)

-----------------------------------------------------------------------------
(* Properties of the planner *)

\* every name the request reaches is defined
AllDefined == Reach(list, Range(runTargetNames), {}) \subseteq DOMAIN list

\* no name the request reaches depends on itself
Acyclic ==
    \A n \in Reach(list, Range(runTargetNames), {}) \cap DOMAIN list :
       n \notin TransDeps(list, n)

\* the depth-first flatten of the claim: for each name, the flatten of its
\* deps in the order declared, then the name, nothing removed
RECURSIVE Flatten(_, _)
Flatten(l, names) ==
    IF names = <<>> THEN <<>>
    ELSE Flatten(l, l[Head(names)].deps) \o <<Head(names)>>
         \o Flatten(l, Tail(names))

\* a sequence without every element that occurs earlier in it
RECURSIVE FirstOccurrences(_)
FirstOccurrences(q) ==
    IF q = <<>> THEN <<>>
    ELSE LET front == SubSeq(q, 1, Len(q) - 1) IN
         IF q[Len(q)] \in Range(front) THEN FirstOccurrences(front)
         ELSE Append(FirstOccurrences(front), q[Len(q)])

\* C1: on a registry that defines every name and has no dependency cycle,
\* buildExecOrder returns the first occurrences of the concatenated
\* depth-first flattens of the requested names; a target without deps asked
\* for alone comes back alone, and A->[B] gives [B, A] for [A] and for [B, A].
C1_OrderIsFlattenDedup ==
    (pc # "buildExecOrder" /\ AllDefined /\ Acyclic)
       => /\ runTargets = Ok(FirstOccurrences(Flatten(list, runTargetNames)))
          /\ (Len(runTargetNames) = 1 /\ list[runTargetNames[1]].deps = <<>>)
                => runTargets.out = runTargetNames
          /\ (list[tA].deps = <<tB>> /\ list[tB].deps = <<>>
              /\ runTargetNames \in {<<tA>>, <<tB, tA>>})
                => runTargets.out = <<tB, tA>>

\* C1 witness: A->[B] asked as [B, A] has returned [B, A]
C1_Witness ==
    /\ pc = "returned"
    /\ list[tA].deps = <<tB>> /\ list[tB].deps = <<>>
    /\ runTargetNames = <<tB, tA>>
    /\ runTargets.out = <<tB, tA>>

\* C2: on a registry without dependency cycle, whatever the order of the deps,
\* the returned order holds no name twice, holds exactly the requested names
\* and the names they transitively depend on, and holds every name after all
\* the names it transitively depends on.
C2_OrderRespectsDeps ==
    (pc # "buildExecOrder" /\ AllDefined /\ Acyclic)
       => /\ runTargets.st = "ok"
          /\ \A i, j \in DOMAIN runTargets.out :
                i # j => runTargets.out[i] # runTargets.out[j]
          /\ Range(runTargets.out) = Reach(list, Range(runTargetNames), {})
          /\ \A i \in DOMAIN runTargets.out :
                \A u \in TransDeps(list, runTargets.out[i]) :
                   \E j \in 1..(i - 1) : runTargets.out[j] = u

\* C2 witness: the diamond A->[B,C], B->[D], C->[D] asked as [A] has returned
\* D, B, C, A
C2_Witness ==
    /\ pc = "returned"
    /\ list[tA].deps = <<tB, tC>> /\ list[tB].deps = <<tD>>
    /\ list[tC].deps = <<tD>> /\ list[tD].deps = <<>>
    /\ runTargetNames = <<tA>>
    /\ runTargets.out = <<tD, tB, tC, tA>>

-----------------------------------------------------------------------------
(* Properties of the stepwise planner *)

\* the planner has stopped: it returned, or the process ended
Stopped == pc \in {"returned", "fatal", "overflow"}

\* C11: with every name the request reaches defined, buildExecOrder returns
\* exactly when no reachable name depends on itself: without a cycle the call
\* always returns, and never fills the stack; with a cycle (a target that
\* lists itself included) the stack grows until it is full, and the call
\* never returns an order nor ends with an error such as DependencyCycle.
\* When the planner has stopped, its outcome is the one buildExecOrder
\* computes by recursion.
C11_ReturnsIffAcyclic ==
    /\ (AllDefined /\ Acyclic) ~> (pc = "returned")
    /\ [](AllDefined /\ Acyclic => pc # "overflow")
    /\ (AllDefined /\ ~Acyclic) ~> (pc = "overflow" /\ Len(stack) = MaxDepth)
    /\ [](AllDefined /\ ~Acyclic => pc \notin {"returned", "fatal"})
    /\ [](Stopped => runTargets = buildExecOrder(list, runTargetNames, {}))

\* C11 witness: a target that lists its own name after USING was asked for,
\* and the stack is full of calls for it
C11_Witness ==
    /\ pc = "overflow"
    /\ AllDefined
    /\ runTargetNames = <<tA>>
    /\ list[tA].deps = <<tA>>
    /\ Len(stack) = MaxDepth
    /\ \A k \in DOMAIN stack : stack[k].targets = <<tA>> /\ stack[k].i = 1

-----------------------------------------------------------------------------
(* Properties of the resolver *)

\* the target a call of the resolver was made for
resolvedTarget == list[runTargetNames[1]]

\* C4 as stated: the text returned for any target, a self-referencing one
\* included, is a preface, a newline and the body of the target unchanged.
C4_TextEndsWithBody ==
    pc = "returned"
       => /\ HasSuffix(dfile.out, <<NL>> \o resolvedTarget.defn)
          /\ SelfRef(resolvedTarget) => dfile.out = <<NL>> \o resolvedTarget.defn

\* the text before the newline and the body of the resolved target
PrefaceOfText ==
    SubSeq(dfile.out, 1, Len(dfile.out) - Len(resolvedTarget.defn) - 1)

\* C4 amended: the text returned for a self-referencing target is empty,
\* whatever its body; for every other target it is the preface, one newline
\* and the body unchanged, where the preface of a base image is FROM and the
\* image, and the preface of a path or workspace reference is the trimmed
\* content of a Dockerfile.
C4_TextIsPrefaceNewlineBody ==
    pc = "returned"
       => IF SelfRef(resolvedTarget)
          THEN dfile.out = <<>>
          ELSE /\ HasSuffix(dfile.out, <<NL>> \o resolvedTarget.defn)
               /\ resolvedTarget.image = LiteralImage
                     => PrefaceOfText = <<"F", "R", "O", "M", " ">> \o LiteralImage
               /\ (\E q \in {<<".", "/">>, <<"&">>} :
                      HasPrefix(resolvedTarget.image, q))
                     => \E dir \in DOMAIN files :
                           /\ files[dir] # NoFile
                           /\ PrefaceOfText = Trim(files[dir], BlankCut)

\* C4 witness: the resolver has returned for a self-referencing target with
\* a body
C4_Witness ==
    /\ pc = "returned"
    /\ SelfRef(resolvedTarget)
    /\ resolvedTarget.defn # <<>>

\* the target a # image names
RefOf(s) == From(s.image, 1)
IsRef(s) == HasPrefix(s.image, <<"#">>)

\* the targets from n along the # references, up to the first whose image is
\* no # reference; ok is false when the chain leaves the registry or comes
\* back to a name it holds, a self-reference being the shortest such cycle
RECURSIVE ChainFrom(_, _, _)
ChainFrom(l, n, seen) ==
    IF n \notin DOMAIN l \/ n \in Range(seen)
    THEN [ok |-> FALSE, names |-> seen]
    ELSE IF IsRef(l[n]) THEN ChainFrom(l, RefOf(l[n]), Append(seen, n))
    ELSE [ok |-> TRUE, names |-> Append(seen, n)]

\* strings.Split(s, "\n")
RECURSIVE SplitLines(_, _)
SplitLines(s, acc) ==
    IF s = <<>> THEN <<acc>>
    ELSE IF Head(s) = NL THEN <<acc>> \o SplitLines(Tail(s), <<>>)
    ELSE SplitLines(Tail(s), Append(acc, Head(s)))

\* the lines of a text, without the blanks at their ends
StrippedLines(s) ==
    LET ls == SplitLines(s, <<>>) IN [i \in DOMAIN ls |-> Trim(ls[i], BlankCut)]

\* the lines of a body: each is followed by a newline
BodyLines(defn) ==
    LET ls == StrippedLines(defn) IN SubSeq(ls, 1, Len(ls) - 1)

\* the body lines of the targets of a chain, the farthest ancestor first
RECURSIVE ChainBodyLines(_, _)
ChainBodyLines(l, names) ==
    IF names = <<>> THEN <<>>
    ELSE ChainBodyLines(l, Tail(names)) \o BodyLines(l[Head(names)].defn)

IsPathRef(image) ==
    HasPrefix(image, <<".", "/">>) \/ HasPrefix(image, <<"&">>)

\* the directory a path reference or a workspace reference names, below
\* origdir
PathDir(image) ==
    IF HasPrefix(image, <<"&">>) THEN JoinDrmakeTargets(From(image, 1))
    ELSE From(image, 2)

\* the directory can be entered and holds a Dockerfile
Readable(dir) == dir \in DOMAIN files /\ files[dir] # NoFile

\* C13: whatever the working directory at the call, the recipe of a target
\* with a path or workspace reference starts with the trimmed Dockerfile of
\* the directory the reference names below origdir, and the call is fatal when
\* that directory or its Dockerfile cannot be read; the Dockerfile of another
\* directory is never used.
C13_PrefaceFromNamedDirectory ==
    (pc # "Dockerfile" /\ IsPathRef(resolvedTarget.image))
       => LET dir == PathDir(resolvedTarget.image) IN
          IF Readable(dir)
          THEN /\ pc = "returned"
               /\ dfile.out = Trim(files[dir], BlankCut) \o <<NL>>
                              \o resolvedTarget.defn
          ELSE /\ pc = "fatal"
               /\ dfile.msg = "Failed to read image"

-----------------------------------------------------------------------------
(* Properties of the listing *)

\* the names of the targets with a description
Described == {n \in DOMAIN list : list[n].desc # <<>>}

\* C8: print renders one line for each target with a description and none
\* for the others, in the lexicographic order of the names (and so the same
\* lines on every run).
C8_ListsEveryDescribedTarget ==
    pc = "printed"
       => /\ Range(namelist) = Described
          /\ Len(namelist) = Cardinality(Described)
          /\ \A i, j \in DOMAIN namelist :
                i < j => StrLess(namelist[i], namelist[j])

-----------------------------------------------------------------------------
(* Properties of the parser *)

\* the lines of the manifest as the loop sees them, continuations joined
RECURSIVE LogicalLines(_, _)
LogicalLines(prev, lines) ==
    IF lines = <<>> THEN <<>>
    ELSE LET line == JoinedLine(prev, Head(lines)) IN
         IF Continued(line)
         THEN LogicalLines(SubSeq(line, 1, Len(line) - 1), Tail(lines))
         ELSE <<line>> \o LogicalLines(<<>>, Tail(lines))

\* a line the loop does not skip as blank or comment
IsContent(line) == line # <<>> /\ line[1] # "#"

\* a line that opens a target
IsHeader(line) ==
    /\ IsContent(line)
    /\ Len(Fields(line)) > 0
    /\ ToUpper(Fields(line)[1]) = KwFROM
    /\ reFromLineMatch(Fields(line)) # NoMatch

\* an argument-declaration line
IsEnvarg(line) ==
    /\ IsContent(line)
    /\ Len(Fields(line)) > 0
    /\ ToUpper(Fields(line)[1]) = KwENVARG

\* the argument-declaration lines of the manifest that come while a target
\* is current
EnvargLines ==
    LET ll == LogicalLines(<<>>, data) IN
    {ll[i] : i \in {k \in DOMAIN ll :
                       /\ IsEnvarg(ll[k])
                       /\ \E j \in 1..(k - 1) : IsHeader(ll[j])}}

\* C7: an ENVARG line met while a target is current makes the parse fatal
\* unless it has exactly one operand, and no ENVARG line is appended as it
\* stands to a body.
C7_EnvargNeedsOneOperand ==
    pc # "parseMakefile"
       => \A line \in EnvargLines :
             /\ Len(Fields(line)) # 2 => pc = "fatal"
             /\ pc = "parsed"
                   => \A n \in DOMAIN list :
                         line \notin Range(SplitLines(list[n].defn, <<>>))

\* a line whose first token is FROM, whatever its case
HeaderToken(line) ==
    /\ IsContent(line)
    /\ Len(Fields(line)) > 0
    /\ ToUpper(Fields(line)[1]) = KwFROM

\* the name of the target a header line opens
HeaderName(line) ==
    LET match == reFromLineMatch(Fields(line)) IN
    IF match[2] = <<>> THEN LastWordPiece(match[1]) ELSE match[2]

\* what a line adds to the body of the current target: nothing for an
\* artifact declaration, the declaration and the binding for an argument
\* declaration with its one operand, the line itself for any other line
Contribution(line) ==
    LET cf == Fields(line) IN
    IF Len(cf) > 1 /\ ToUpper(cf[1]) = KwARTIFACT THEN <<>>
    ELSE IF Len(cf) = 2 /\ ToUpper(cf[1]) = KwENVARG
    THEN LET key == SplitN2(cf[2], "=")[1] IN
         <<"A", "R", "G", SP>> \o cf[2] \o <<NL>>
         \o <<"E", "N", "V", SP>> \o key \o <<"=", "$", "{">> \o key
         \o <<"}", NL>>
    ELSE line \o <<NL>>

\* what the lines ll[from..to] that are neither blank, nor comment, nor FROM
\* lines add to a body
RECURSIVE Contributed(_, _, _)
Contributed(ll, from, to) ==
    IF from > to THEN <<>>
    ELSE (IF IsContent(ll[from]) /\ ~HeaderToken(ll[from])
          THEN Contribution(ll[from]) ELSE <<>>)
         \o Contributed(ll, from + 1, to)

\* the places of the lines that open a target, and of the FROM lines
Headers(ll) == {k \in DOMAIN ll : IsHeader(ll[k])}
HeaderTokens(ll) == {k \in DOMAIN ll : HeaderToken(ll[k])}

\* the place of the last header of target n
LastHeaderOf(ll, n) ==
    CHOOSE k \in Headers(ll) :
       /\ HeaderName(ll[k]) = n
       /\ \A j \in Headers(ll) : HeaderName(ll[j]) = n => j <= k

\* the first place of K after k, or the place after the last line
NextOf(ll, K, k) ==
    IF \E j \in K : j > k
    THEN CHOOSE j \in K : j > k /\ \A i \in K : i > k => j <= i
    ELSE Len(ll) + 1

\* the registry holds the targets of the headers, and the default target is
\* the target of the first header
RegistryOfHeaders(ll) ==
    /\ DOMAIN list = {HeaderName(ll[k]) : k \in Headers(ll)}
    /\ defaultTarget = IF Headers(ll) = {} THEN <<>>
                       ELSE HeaderName(ll[NextOf(ll, Headers(ll), 0)])

\* C12 as stated: every FROM line opens a target, and the body of a target is
\* what the lines between its last header and the next FROM line contribute.
C12_EveryFromLineOpensTarget ==
    pc = "parsed" =>
       LET ll == LogicalLines(<<>>, data) IN
       /\ \A k \in HeaderTokens(ll) : k \in Headers(ll)
       /\ RegistryOfHeaders(ll)
       /\ \A n \in DOMAIN list :
             list[n].defn =
                Contributed(ll, LastHeaderOf(ll, n) + 1,
                            NextOf(ll, HeaderTokens(ll), LastHeaderOf(ll, n)) - 1)

\* C12 amended: a FROM line opens a target when the header pattern matches it
\* (it names a reference), and is passed over like a comment when it does
\* not; the registry holds the targets of the matched headers, the first one
\* being the default, and the body of a target is what the lines that are
\* neither blank, nor comment, nor FROM lines contribute, in order, between
\* its last header and the next matched header. Lines before the first
\* matched header contribute to no target.
C12_MatchedHeadersDelimitBodies ==
    pc = "parsed" =>
       LET ll == LogicalLines(<<>>, data) IN
       /\ RegistryOfHeaders(ll)
       /\ \A n \in DOMAIN list :
             list[n].defn =
                Contributed(ll, LastHeaderOf(ll, n) + 1,
                            NextOf(ll, Headers(ll), LastHeaderOf(ll, n)) - 1)

\* C12 witness: a line follows a FROM line without reference, and belongs to
\* the target opened before that line
C12_Witness ==
    /\ pc = "parsed"
    /\ Len(data) = 3
    /\ IsHeader(data[1]) /\ HeaderName(data[1]) = tA
    /\ Fields(data[2]) = <<KwFROM>>
    /\ data[3] = <<"R", "U", "N", SP, "l">>
    /\ list[tA].defn = data[3] \o <<NL>>
    /\ defaultTarget = tA

====
